---------------------------- MODULE Spec2Model ----------------------------
(***************************************************************************)
(* A model of src/app.js of house-paint-app: the session state (loaded     *)
(* image, mask canvas, current file), the three event handlers             *)
(* (handleImageUpload, handleMasking, applyColor) with their asynchronous  *)
(* continuations, and the recolouring arithmetic.                          *)
(*                                                                         *)
(* Numbers: the JavaScript code computes in IEEE doubles.  The model       *)
(* computes the same expressions exactly, as fractions of integers, and    *)
(* rounds where the code rounds (Math.round in hslToRgb, the               *)
(* Uint8ClampedArray store in applyColor).  The two agree except where the *)
(* exact value is a rounding tie; the pixels and colours enumerated below  *)
(* were chosen so that no tie occurs.                                      *)
(*                                                                         *)
(* Pixel buffers: a buffer is represented by its width, its height and the *)
(* values at SamplePixels fixed sample positions that every buffer has.    *)
(***************************************************************************)
EXTENDS Integers, Sequences, FiniteSets

\* ------------------------------------------------------------- bounds
\* sample positions tracked in every pixel buffer
SamplePixels == 2
\* files picked in one run
MaxUploads == 2
\* mask requests issued in one run
MaxRequests == 2
\* direct invocations of applyColor (the Apply button handler) in one run
MaxApplies == 1

\* ---------------------------------------------------- program constants
MAX_WIDTH == 2048

\* the default size of a canvas element before its width/height are set
DefaultCanvasW == 300
DefaultCanvasH == 150

\* ------------------------------------------------------------ helpers
Max2(a, b) == IF a >= b THEN a ELSE b
Min2(a, b) == IF a <= b THEN a ELSE b

\* Math.round on a non-negative fraction n/d: nearest integer, halves up
MathRound(n, d) == IF 2 * (n % d) >= d THEN (n \div d) + 1 ELSE n \div d

\* the store into a Uint8ClampedArray of the fraction n/d: clamped to
\* 0..255, rounded to nearest, halves to even
ToUint8Clamp(n, d) ==
    IF n <= 0 THEN 0
    ELSE IF n >= 255 * d THEN 255
    ELSE LET q == n \div d
             r == n % d
         IN  IF 2 * r < d THEN q
             ELSE IF 2 * r > d THEN q + 1
             ELSE IF q % 2 = 0 THEN q ELSE q + 1

\* ------------------------------------------------ colour space converter
\* A colour picker value "#rrggbb" is the sequence of its six hex digits.
HexValue(hex) ==
    ((((hex[1] * 16 + hex[2]) * 16 + hex[3]) * 16 + hex[4]) * 16 + hex[5]) * 16 + hex[6]

\* hexToRgb: parseInt(hex.slice(1), 16), then the three bytes
hexToRgb(hex) ==
    LET bigint == HexValue(hex)
    IN  << (bigint \div 65536) % 256, (bigint \div 256) % 256, bigint % 256 >>

\* rgbToHsl(r, g, b) for integers in 0..255.  The result is exact:
\*   h = hn/hd, s = sn/sd, l = ln/510   (510 = 2 * 255)
rgbToHsl(r, g, b) ==
    LET max == Max2(r, Max2(g, b))
        min == Min2(r, Min2(g, b))
        d   == max - min
        sum == max + min
    IN  IF max = min
        THEN [hn |-> 0, hd |-> 1, sn |-> 0, sd |-> 1, ln |-> sum]
        ELSE [hn |-> IF max = r THEN (g - b) + (IF g < b THEN 6 * d ELSE 0)
                     ELSE IF max = g THEN (b - r) + 2 * d
                     ELSE (r - g) + 4 * d,
              hd |-> 6 * d,
              sn |-> d,
              sd |-> IF sum > 255 THEN 510 - sum ELSE sum,
              ln |-> sum]

\* hue2rgb(p, q, t) * 255, rounded: p = pn/D, q = qn/D, t = tn/H, and
\* den = D * H / 255 (D = 510 * sd, so den = 2 * sd * H)
hue2rgb(pn, qn, tn0, H, den) ==
    LET t1 == IF tn0 < 0 THEN tn0 + H ELSE tn0
        tn == IF t1 > H THEN t1 - H ELSE t1
        num == IF 6 * tn < H THEN pn * H + (qn - pn) * 6 * tn
               ELSE IF 2 * tn < H THEN qn * H
               ELSE IF 3 * tn < 2 * H THEN pn * H + (qn - pn) * (4 * H - 6 * tn)
               ELSE pn * H
    IN  MathRound(num, den)

\* a converter with the hue offsets of red and blue exchanged
hslToRgbOffsetsSwapped(hn, hd, sn, sd, ln) ==
    IF sn = 0
    THEN LET v == MathRound(ln, 2) IN << v, v, v >>
    ELSE LET qn  == IF ln < 255 THEN ln * (sd + sn)
                    ELSE ln * sd + 510 * sn - ln * sn
             pn  == 2 * ln * sd - qn
             H   == 3 * hd
             den == 2 * sd * H
         IN  << hue2rgb(pn, qn, 3 * hn - hd, H, den),
                hue2rgb(pn, qn, 3 * hn, H, den),
                hue2rgb(pn, qn, 3 * hn + hd, H, den) >>

\* hslToRgb(h, s, l) with h = hn/hd, s = sn/sd, l = ln/510
hslToRgb(hn, hd, sn, sd, ln) ==
    IF sn = 0
    THEN LET v == MathRound(ln, 2) IN << v, v, v >>
    ELSE LET qn  == IF ln < 255 THEN ln * (sd + sn)
                    ELSE ln * sd + 510 * sn - ln * sn
             pn  == 2 * ln * sd - qn
             H   == 3 * hd
             den == 2 * sd * H
         IN  << hue2rgb(pn, qn, 3 * hn + hd, H, den),
                hue2rgb(pn, qn, 3 * hn, H, den),
                hue2rgb(pn, qn, 3 * hn - hd, H, den) >>

\* lerp(start, end, t) with t = a/255: the numerator of the result over 255
lerp(start, end, a) == start * (255 - a) + end * a

\* ------------------------------------------------------------ the inputs
\* An upload is a picked file; what it holds is one of three contents:
\*   1  a 640 x 480 opaque photo
\*   2  a 4096 x 2049 PNG whose first sample pixel is half transparent
\*   3  bytes that are no image (decoding fails)
NoFile == 0
Contents == {1, 2, 3}
Decodable(c) == c \in {1, 2}
ImgWidth(c) == IF c = 1 THEN 640 ELSE 4096
ImgHeight(c) == IF c = 1 THEN 480 ELSE 2049

Pixels == 1..SamplePixels
Transparent == [r |-> 0, g |-> 0, b |-> 0, a |-> 0]

\* the decoded image's pixel at sample position i
ImgPixel(c, i) ==
    IF c = 1
    THEN IF i % 2 = 1 THEN [r |-> 100, g |-> 100, b |-> 100, a |-> 255]
                      ELSE [r |-> 200, g |-> 150, b |-> 100, a |-> 255]
    ELSE IF i = 1 THEN [r |-> 60, g |-> 120, b |-> 180, a |-> 128]
                  ELSE [r |-> 30, g |-> 60, b |-> 90, a |-> 255]

\* colour picker values: #ff0000, #4682b4
Colors == { <<15, 15, 0, 0, 0, 0>>, <<4, 6, 8, 2, 11, 4>> }

\* what the service's maskPngBase64 decodes to, scaled and blurred, as the
\* alpha at the sample positions; "bad" is base64 that is no PNG
MaskImages == {"full", "feather", "bad"}
MaskAlpha(m, i) ==
    IF m = "full" THEN 255
    ELSE IF m = "feather" THEN (IF i % 2 = 1 THEN 128 ELSE 0)
    ELSE 0

\* ------------------------------------------------------------ the canvas
\* ctx.drawImage composites with the default operation, source-over: an
\* opaque source pixel replaces the canvas pixel, a fully transparent one
\* leaves it, and a translucent one is blended with it (8-bit channels,
\* rounded to nearest).
RoundDiv(n, d) == (2 * n + d) \div (2 * d)

SourceOver(s, d) ==
    IF s.a = 255 THEN s
    ELSE IF s.a = 0 THEN d
    ELSE LET A == s.a * 255 + d.a * (255 - s.a)
             mix(cs, cd) == RoundDiv(cs * s.a * 255 + cd * d.a * (255 - s.a), A)
         IN  [r |-> mix(s.r, d.r), g |-> mix(s.g, d.g), b |-> mix(s.b, d.b),
              a |-> RoundDiv(A, 255)]

\* ctx.drawImage(img, 0, 0, width, height) onto the canvas holding `data`
drawImage(c, data) == [i \in Pixels |-> SourceOver(ImgPixel(c, i), data[i])]

\* the canvas dimensions handleImageUpload's img.onload sets
FitWidth(c) == IF ImgWidth(c) > MAX_WIDTH THEN MAX_WIDTH ELSE ImgWidth(c)
FitHeight(c) ==
    IF ImgWidth(c) > MAX_WIDTH
    THEN (ImgHeight(c) * MAX_WIDTH) \div ImgWidth(c)
    ELSE ImgHeight(c)

\* ---------------------------------------------------- recolouring engine
\* a loop body that reads the mask with its polarity inverted: alpha is
\* taken as how much of the pixel to keep
RecolorPixelInverted(px, maskAlpha, hex) ==
    IF maskAlpha < 255
    THEN LET rgbT == hexToRgb(hex)
             T    == rgbToHsl(rgbT[1], rgbT[2], rgbT[3])
             l    == rgbToHsl(px.r, px.g, px.b).ln
             new  == hslToRgb(T.hn, T.hd, T.sn, T.sd, l)
         IN  [r |-> ToUint8Clamp(lerp(px.r, new[1], 255 - maskAlpha), 255),
              g |-> ToUint8Clamp(lerp(px.g, new[2], 255 - maskAlpha), 255),
              b |-> ToUint8Clamp(lerp(px.b, new[3], 255 - maskAlpha), 255),
              a |-> px.a]
    ELSE px

\* a loop body that takes only the hue from the target and keeps the
\* pixel's own saturation
RecolorPixelKeepingSaturation(px, maskAlpha, hex) ==
    IF maskAlpha > 0
    THEN LET rgbT == hexToRgb(hex)
             T    == rgbToHsl(rgbT[1], rgbT[2], rgbT[3])
             S    == rgbToHsl(px.r, px.g, px.b)
             new  == hslToRgb(T.hn, T.hd, S.sn, S.sd, S.ln)
         IN  [r |-> ToUint8Clamp(lerp(px.r, new[1], maskAlpha), 255),
              g |-> ToUint8Clamp(lerp(px.g, new[2], maskAlpha), 255),
              b |-> ToUint8Clamp(lerp(px.b, new[3], maskAlpha), 255),
              a |-> px.a]
    ELSE px

\* the body of applyColor's loop for one pixel: px is the canvas pixel
\* after the redraw, maskAlpha the mask's alpha there, hex the picker value
RecolorPixel(px, maskAlpha, hex) ==
    IF maskAlpha > 0
    THEN LET rgbT == hexToRgb(hex)
             T    == rgbToHsl(rgbT[1], rgbT[2], rgbT[3])
             l    == rgbToHsl(px.r, px.g, px.b).ln
             new  == hslToRgb(T.hn, T.hd, T.sn, T.sd, l)
         IN  [r |-> ToUint8Clamp(lerp(px.r, new[1], maskAlpha), 255),
              g |-> ToUint8Clamp(lerp(px.g, new[2], maskAlpha), 255),
              b |-> ToUint8Clamp(lerp(px.b, new[3], maskAlpha), 255),
              a |-> px.a]
    ELSE px

\* ---------------------------------------------------------------- state
VARIABLES
    originalImage,    \* the upload whose decoded Image is held, or NoFile
    maskCanvas,       \* NoMask, or the offscreen canvas holding the mask
    maskCtx,          \* the 2d context of the last mask canvas created
    currentFile,      \* the upload last picked, or NoFile
    canvasW, canvasH, \* mainCanvas.width, mainCanvas.height
    canvasData,       \* mainCanvas's pixels at the sample positions
    btnMaskDisabled, btnApplyDisabled,
    status,           \* statusMessage: [msg, type]
    loadingHidden,    \* loadingOverlay carries the class 'hidden'
    colorPicker,      \* colorPicker.value
    uploads,          \* every file picked so far, with its decoding stage
    requests,         \* every mask request issued so far, with its stage
    applyCalls,       \* invocations of applyColor as the Apply handler
    engIn, engOut,    \* the recolouring engine run on one pixel: its
                      \* arguments and its result
    engRt             \* the converter run there and back on that pixel

vars == << originalImage, maskCanvas, maskCtx, currentFile, canvasW, canvasH,
           canvasData, btnMaskDisabled, btnApplyDisabled, status,
           loadingHidden, colorPicker, uploads, requests,
           applyCalls, engIn, engOut, engRt >>

\* the variables of the page, and those of the engine on its own
page == << originalImage, maskCanvas, maskCtx, currentFile, canvasW, canvasH,
           canvasData, btnMaskDisabled, btnApplyDisabled, status,
           loadingHidden, colorPicker, uploads, requests, applyCalls >>
engine == << engIn, engOut, engRt >>

\* a mask canvas: its size, the mask image drawn on it and, for the claims,
\* how many image loads had completed when its request was issued
NoMask == [w |-> 0, h |-> 0, img |-> "none", loads |-> 0]

\* a request's record once its handler has returned
Returned(pc) ==
    [pc |-> pc, form |-> << >>, toggle |-> FALSE, mask |-> "none",
     snap |-> << >>, loads |-> 0]

setStatus(msg, type) == [msg |-> msg, type |-> type]

\* the number of image loads completed so far
Loads(ups) == Cardinality({i \in 1..Len(ups) : ups[i].stage = "loaded"})

\* The script's variables start null.  What the page's markup sets is taken
\* to be what the handlers presuppose: both buttons disabled (img.onload is
\* what enables the mask button), the overlay hidden, and a canvas of the
\* default size, transparent.
PageInit ==
    /\ originalImage = NoFile
    /\ maskCanvas = NoMask
    /\ maskCtx = NoMask
    /\ currentFile = NoFile
    /\ canvasW = DefaultCanvasW
    /\ canvasH = DefaultCanvasH
    /\ canvasData = [i \in Pixels |-> Transparent]
    /\ btnMaskDisabled = TRUE
    /\ btnApplyDisabled = TRUE
    /\ status = setStatus("", "normal")
    /\ loadingHidden = TRUE
    /\ colorPicker \in Colors
    /\ uploads = << >>
    /\ requests = << >>
    /\ applyCalls = 0

NoPixel == [px |-> Transparent, maskAlpha |-> 0, hex |-> <<0, 0, 0, 0, 0, 0>>]

Init ==
    /\ PageInit
    /\ engIn = NoPixel
    /\ engOut = << >>
    /\ engRt = << >>

\* ------------------------------------------------------------- applyColor
\* a guard that forgets the mask
applyColorGuardImageOnly(img, mask) == img /= NoFile

\* applyColor's guard: it returns at once unless an image and a mask are held
applyColorGuard(img, mask) == img /= NoFile /\ mask /= NoMask

\* the pixels applyColor leaves on the main canvas: the original is drawn
\* over what the canvas holds, then every pixel is recoloured through the
\* mask read from maskCtx
applyColorData(img, ctxMask, data, hex) ==
    LET redrawn == drawImage(uploads[img].content, data)
    IN  [i \in Pixels |-> RecolorPixel(redrawn[i], MaskAlpha(ctxMask.img, i), hex)]

\* applyColor, invoked as the Apply button's handler
applyColor ==
    /\ applyCalls < MaxApplies
    /\ applyCalls' = applyCalls + 1
    /\ IF applyColorGuard(originalImage, maskCanvas)
       THEN /\ canvasData' = applyColorData(originalImage, maskCtx, canvasData, colorPicker)
            /\ status' = setStatus("Color applied.", "success")
       ELSE UNCHANGED << canvasData, status >>
    /\ UNCHANGED << originalImage, maskCanvas, maskCtx, currentFile, canvasW,
                    canvasH, btnMaskDisabled, btnApplyDisabled, loadingHidden,
                    colorPicker, uploads, requests, engine >>

\* ------------------------------------------------------ handleImageUpload
\* the change handler of the file input; c = NoFile is a change event with
\* no file chosen
handleImageUpload(c) ==
    IF c = NoFile
    THEN UNCHANGED vars
    ELSE /\ Len(uploads) < MaxUploads
         /\ uploads' = Append(uploads, [content |-> c, stage |-> "reading"])
         /\ currentFile' = Len(uploads) + 1
         /\ UNCHANGED << originalImage, maskCanvas, maskCtx, canvasW, canvasH,
                         canvasData, btnMaskDisabled, btnApplyDisabled, status,
                         loadingHidden, colorPicker, requests,
                         applyCalls, engine >>

\* reader.onload: the file is read, the Image starts decoding the data URL
readerOnload(u) ==
    /\ uploads[u].stage = "reading"
    /\ uploads' = [uploads EXCEPT ![u].stage = "decoding"]
    /\ UNCHANGED << originalImage, maskCanvas, maskCtx, currentFile, canvasW,
                    canvasH, canvasData, btnMaskDisabled, btnApplyDisabled,
                    status, loadingHidden, colorPicker, requests,
                    applyCalls, engine >>

\* the Image fails to decode: it has no onerror handler, nothing happens
imgError(u) ==
    /\ uploads[u].stage = "decoding"
    /\ ~Decodable(uploads[u].content)
    /\ uploads' = [uploads EXCEPT ![u].stage = "failed"]
    /\ UNCHANGED << originalImage, maskCanvas, maskCtx, currentFile, canvasW,
                    canvasH, canvasData, btnMaskDisabled, btnApplyDisabled,
                    status, loadingHidden, colorPicker, requests,
                    applyCalls, engine >>

\* an img.onload that forgets to reset the mask and the Apply button
imgOnloadKeepingMask(u) ==
    /\ uploads[u].stage = "decoding"
    /\ Decodable(uploads[u].content)
    /\ uploads' = [uploads EXCEPT ![u].stage = "loaded"]
    /\ originalImage' = u
    /\ btnMaskDisabled' = FALSE
    /\ canvasW' = FitWidth(uploads[u].content)
    /\ canvasH' = FitHeight(uploads[u].content)
    /\ canvasData' = drawImage(uploads[u].content, [i \in Pixels |-> Transparent])
    /\ status' = setStatus("Image loaded. Click 'Mask House' to detect areas.", "normal")
    /\ UNCHANGED << maskCanvas, btnApplyDisabled, maskCtx, currentFile,
                    loadingHidden, colorPicker, requests, applyCalls, engine >>

\* an img.onload that drops the mask but leaves the Apply button as it is
imgOnloadLeavingApply(u) ==
    /\ uploads[u].stage = "decoding"
    /\ Decodable(uploads[u].content)
    /\ uploads' = [uploads EXCEPT ![u].stage = "loaded"]
    /\ originalImage' = u
    /\ maskCanvas' = NoMask
    /\ btnMaskDisabled' = FALSE
    /\ canvasW' = FitWidth(uploads[u].content)
    /\ canvasH' = FitHeight(uploads[u].content)
    /\ canvasData' = drawImage(uploads[u].content, [i \in Pixels |-> Transparent])
    /\ status' = setStatus("Image loaded. Click 'Mask House' to detect areas.", "normal")
    /\ UNCHANGED << btnApplyDisabled, maskCtx, currentFile, loadingHidden,
                    colorPicker, requests, applyCalls, engine >>

\* img.onload of handleImageUpload
imgOnload(u) ==
    /\ uploads[u].stage = "decoding"
    /\ Decodable(uploads[u].content)
    /\ uploads' = [uploads EXCEPT ![u].stage = "loaded"]
    /\ originalImage' = u
    /\ maskCanvas' = NoMask
    /\ btnMaskDisabled' = FALSE
    /\ btnApplyDisabled' = TRUE
    /\ canvasW' = FitWidth(uploads[u].content)
    /\ canvasH' = FitHeight(uploads[u].content)
    \* setting the canvas size clears it
    /\ canvasData' = drawImage(uploads[u].content, [i \in Pixels |-> Transparent])
    /\ status' = setStatus("Image loaded. Click 'Mask House' to detect areas.", "normal")
    /\ UNCHANGED << maskCtx, currentFile, loadingHidden, colorPicker,
                    requests, applyCalls, engine >>

\* ----------------------------------------------------------- handleMasking
\* the click handler of the mask button, up to its first await (the fetch);
\* checked is modeToggle.checked as the handler reads it
\* a form whose scene tag reads the toggle the wrong way round
formDataSceneInverted(file, checked) ==
    [image |-> file,
     scene |-> IF checked THEN "exterior" ELSE "interior",
     mode  |-> "auto"]

\* the FormData handleMasking builds: the fields appended, by name
formData(file, checked) ==
    [image |-> file,
     scene |-> IF checked THEN "interior" ELSE "exterior",
     mode  |-> "auto"]

handleMasking(checked) ==
    IF currentFile = NoFile
    THEN UNCHANGED vars
    ELSE /\ Len(requests) < MaxRequests
         /\ loadingHidden' = FALSE
         /\ status' = setStatus("Uploading and masking...", "normal")
         /\ requests' = Append(requests,
                [pc     |-> "fetch",
                 \* the body of the POST
                 form   |-> formData(currentFile, checked),
                 \* modeToggle.checked when the handler ran
                 toggle |-> checked,
                 mask   |-> "none",
                 \* what was true when the request was issued
                 snap   |-> [image |-> originalImage, mask |-> maskCanvas,
                             apply |-> ~btnApplyDisabled, data |-> canvasData],
                 loads  |-> Loads(uploads)])
         /\ UNCHANGED << originalImage, maskCanvas, maskCtx, currentFile,
                         canvasW, canvasH, canvasData, btnMaskDisabled,
                         btnApplyDisabled, colorPicker, uploads,
                         applyCalls, engine >>

\* a catch block that also throws the held mask away
catchFinallyDroppingMask(k, message) ==
    /\ requests' = [requests EXCEPT ![k] = Returned("failed")]
    /\ status' = setStatus("Error generating mask: " \o message, "error")
    /\ loadingHidden' = TRUE
    /\ maskCanvas' = NoMask
    /\ btnApplyDisabled' = TRUE
    /\ UNCHANGED << originalImage, maskCtx, currentFile, canvasW, canvasH,
                    canvasData, btnMaskDisabled, colorPicker, uploads,
                    applyCalls, engine >>

\* a catch block with no finally: the overlay stays
catchWithoutFinally(k, message) ==
    /\ requests' = [requests EXCEPT ![k] = Returned("failed")]
    /\ status' = setStatus("Error generating mask: " \o message, "error")
    /\ UNCHANGED << originalImage, maskCanvas, maskCtx, currentFile, canvasW,
                    canvasH, canvasData, btnMaskDisabled, btnApplyDisabled,
                    loadingHidden, colorPicker, uploads, applyCalls, engine >>

\* the catch and finally blocks: the error is shown, the overlay hidden
catchFinally(k, message) ==
    /\ requests' = [requests EXCEPT ![k] = Returned("failed")]
    /\ status' = setStatus("Error generating mask: " \o message, "error")
    /\ loadingHidden' = TRUE
    /\ UNCHANGED << originalImage, maskCanvas, maskCtx, currentFile, canvasW,
                    canvasH, canvasData, btnMaskDisabled, btnApplyDisabled,
                    colorPicker, uploads, applyCalls, engine >>

\* the handler moves on to its next await; the form it sent is behind it
awaitNext(k, pc, mask) ==
    /\ requests' = [requests EXCEPT ![k].pc = pc, ![k].mask = mask,
                                    ![k].form = << >>, ![k].toggle = FALSE]
    /\ UNCHANGED << originalImage, maskCanvas, maskCtx, currentFile, canvasW,
                    canvasH, canvasData, btnMaskDisabled, btnApplyDisabled,
                    status, loadingHidden, colorPicker, uploads,
                    applyCalls, engine >>

\* fetch resolves with a response; ok is response.ok
fetchResolve(k, ok) ==
    /\ requests[k].pc = "fetch"
    /\ IF ok THEN awaitNext(k, "json", "none")
             ELSE catchFinally(k, "API Error: statusText")

\* fetch rejects (the network failed)
fetchReject(k) ==
    /\ requests[k].pc = "fetch"
    /\ catchFinally(k, "fetch failed")

\* response.json() resolves; body is the value of data.maskPngBase64,
\* "missing" when the field is absent
jsonResolve(k, body) ==
    /\ requests[k].pc = "json"
    /\ IF body = "missing"
       THEN catchFinally(k, "Invalid response: No mask data received")
       ELSE awaitNext(k, "loadMask", body)

\* response.json() rejects (the body is no JSON)
jsonReject(k) ==
    /\ requests[k].pc = "json"
    /\ catchFinally(k, "SyntaxError")

\* loadMask's img.onerror: the promise rejects with the error event, whose
\* message is undefined
maskOnerror(k) ==
    /\ requests[k].pc = "loadMask"
    /\ requests[k].mask = "bad"
    /\ catchFinally(k, "undefined")

\* a mask canvas whose size is never set: it keeps a canvas's default size
loadMaskDefaultSize(k) ==
    [w |-> DefaultCanvasW, h |-> DefaultCanvasH, img |-> requests[k].mask,
     loads |-> requests[k].loads]

\* the mask canvas loadMask's img.onload creates
loadMask(k) ==
    [w |-> canvasW, h |-> canvasH, img |-> requests[k].mask,
     loads |-> requests[k].loads]

\* loadMask's img.onload and, in the same turn of the event loop (the
\* promise's continuation is a microtask), the rest of handleMasking
maskOnload(k) ==
    /\ requests[k].pc = "loadMask"
    /\ requests[k].mask /= "bad"
    /\ requests' = [requests EXCEPT ![k] = Returned("done")]
    /\ maskCanvas' = loadMask(k)
    /\ maskCtx' = loadMask(k)
    /\ btnApplyDisabled' = FALSE
    /\ IF applyColorGuard(originalImage, loadMask(k))
       THEN /\ canvasData' = applyColorData(originalImage, loadMask(k), canvasData, colorPicker)
            /\ status' = setStatus("Color applied.", "success")
       ELSE /\ status' = setStatus("Mask generated successfully!", "success")
            /\ UNCHANGED canvasData
    /\ loadingHidden' = TRUE
    /\ UNCHANGED << originalImage, currentFile, canvasW, canvasH,
                    btnMaskDisabled, colorPicker, uploads,
                    applyCalls, engine >>

\* ------------------------------------------------------- the user's inputs
\* the user picks another colour (no handler is attached to the picker)
pickColor(c) ==
    /\ c /= colorPicker
    /\ colorPicker' = c
    /\ UNCHANGED << originalImage, maskCanvas, maskCtx, currentFile, canvasW,
                    canvasH, canvasData, btnMaskDisabled, btnApplyDisabled,
                    status, loadingHidden, uploads, requests,
                    applyCalls, engine >>

\* the handlers and callbacks, run by whoever invokes them
Next ==
    \/ \E c \in Contents \cup {NoFile} : handleImageUpload(c)
    \/ \E u \in 1..Len(uploads) : readerOnload(u)
    \/ \E u \in 1..Len(uploads) : imgError(u)
    \/ \E u \in 1..Len(uploads) : imgOnload(u)
    \/ \E checked \in BOOLEAN : handleMasking(checked)
    \/ \E k \in 1..Len(requests), ok \in BOOLEAN : fetchResolve(k, ok)
    \/ \E k \in 1..Len(requests) : fetchReject(k)
    \/ \E k \in 1..Len(requests), body \in MaskImages \cup {"missing"} : jsonResolve(k, body)
    \/ \E k \in 1..Len(requests) : jsonReject(k)
    \/ \E k \in 1..Len(requests) : maskOnerror(k)
    \/ \E k \in 1..Len(requests) : maskOnload(k)
    \/ applyColor
    \/ \E c \in Colors : pickColor(c)

\* The handlers are functions any caller may invoke in any state.
Spec == Init /\ [][Next]_vars

\* The page as its user drives it: a click reaches a button's handler only
\* while the button is enabled.
NextUI ==
    \/ \E c \in Contents \cup {NoFile} : handleImageUpload(c)
    \/ \E u \in 1..Len(uploads) : readerOnload(u)
    \/ \E u \in 1..Len(uploads) : imgError(u)
    \/ \E u \in 1..Len(uploads) : imgOnload(u)
    \/ ~btnMaskDisabled /\ \E checked \in BOOLEAN : handleMasking(checked)
    \/ \E k \in 1..Len(requests), ok \in BOOLEAN : fetchResolve(k, ok)
    \/ \E k \in 1..Len(requests) : fetchReject(k)
    \/ \E k \in 1..Len(requests), body \in MaskImages \cup {"missing"} : jsonResolve(k, body)
    \/ \E k \in 1..Len(requests) : jsonReject(k)
    \/ \E k \in 1..Len(requests) : maskOnerror(k)
    \/ \E k \in 1..Len(requests) : maskOnload(k)
    \/ ~btnApplyDisabled /\ applyColor
    \/ \E c \in Colors : pickColor(c)

SpecUI == Init /\ [][NextUI]_vars

\* ------------------------------------------------ the engine on its own
\* channel values and mask alphas the engine is run on; the third colour,
\* #808080, has no saturation
Channels == {0, 30, 100, 128, 204, 255}
Alphas == {0, 1, 128, 255}
EngineInputs ==
    [px : [r : Channels, g : Channels, b : Channels, a : {0, 128, 255}],
     maskAlpha : Alphas,
     hex : Colors \cup { <<8, 0, 8, 0, 8, 0>> }]

InitEngine ==
    /\ PageInit
    /\ engIn \in EngineInputs
    /\ engOut = << >>
    /\ engRt = << >>

\* one pass of applyColor's loop body
recolor ==
    /\ engOut = << >>
    /\ engOut' = << RecolorPixel(engIn.px, engIn.maskAlpha, engIn.hex) >>
    /\ UNCHANGED << engIn, engRt, page >>

\* the pixel's colour converted to HSL and back
roundTrip ==
    /\ engRt = << >>
    /\ engRt' = LET hsl == rgbToHsl(engIn.px.r, engIn.px.g, engIn.px.b)
                IN  hslToRgb(hsl.hn, hsl.hd, hsl.sn, hsl.sd, hsl.ln)
    /\ UNCHANGED << engIn, engOut, page >>

NextEngine == recolor \/ roundTrip

SpecEngine == InitEngine /\ [][NextEngine]_vars

\* ================================================================ claims
\* a request whose handler is suspended at an await
Pending(r) == r.pc \in {"fetch", "json", "loadMask"}
InFlight == {k \in 1..Len(requests) : Pending(requests[k])}

\* steps, told by what they leave behind
LoadStep(u) == uploads[u].stage = "decoding" /\ uploads'[u].stage = "loaded"
FailStep(k) == Pending(requests[k]) /\ requests'[k].pc = "failed"
DoneStep(k) == requests[k].pc = "loadMask" /\ requests'[k].pc = "done"
ApplyCall == applyCalls' = applyCalls + 1
\* a step in which applyColor writes the canvas
PaintStep ==
    \/ ApplyCall /\ originalImage /= NoFile /\ maskCanvas /= NoMask
    \/ \E k \in 1..Len(requests) : DoneStep(k) /\ originalImage /= NoFile

\* C1: whenever the loaded image is recoloured, the mask in use comes from
\* a request that was issued after that image's load completed.
C1_RecolorOnlyThroughFreshMask ==
    [][PaintStep => maskCtx'.loads = Loads(uploads')]_vars

\* C2: the step that completes an image load leaves the new image as the
\* source, no mask, the mask button enabled and the apply button disabled.
C2_LoadGivesImageLoaded ==
    [][\A u \in 1..Len(uploads) :
          LoadStep(u) => /\ originalImage' = u
                         /\ maskCanvas' = NoMask
                         /\ ~btnMaskDisabled'
                         /\ btnApplyDisabled']_vars

\* a second image was loaded while the first one's mask was held
C2_Witness ==
    /\ originalImage = 2
    /\ maskCanvas = NoMask
    /\ maskCtx /= NoMask
    /\ maskCtx.loads = 1
    /\ btnApplyDisabled
    /\ ~btnMaskDisabled

\* C3: applyColor invoked without an image or without a mask changes neither
\* the canvas nor the session, and an invocation that changes the canvas
\* found both an image and a mask.
C3_ApplyNeedsMasked ==
    [][/\ (ApplyCall /\ (originalImage = NoFile \/ maskCanvas = NoMask))
            => UNCHANGED << canvasData, canvasW, canvasH, originalImage,
                            maskCanvas, maskCtx, currentFile, status,
                            btnMaskDisabled, btnApplyDisabled >>
       /\ (ApplyCall /\ canvasData' /= canvasData)
            => (originalImage /= NoFile /\ maskCanvas /= NoMask)
       /\ \A k \in 1..Len(requests) :
            (DoneStep(k) /\ originalImage = NoFile) => canvasData' = canvasData]_vars

\* applyColor was invoked with an image loaded and no mask ever requested
C3_Witness ==
    /\ applyCalls = 1
    /\ originalImage /= NoFile
    /\ requests = << >>

\* C4: whenever applyColor reads the mask, the mask canvas has the main
\* canvas's width and height (and maskCtx is the held mask canvas's context).
C4_MaskSizedAsCanvas ==
    [][PaintStep => /\ maskCtx'.w = canvasW'
                    /\ maskCtx'.h = canvasH'
                    /\ maskCtx' = maskCanvas']_vars

\* a recolouring of a downscaled image, loaded after one of another size
C4_Witness ==
    /\ Loads(uploads) = 2
    /\ uploads[1].content = 1
    /\ originalImage = 2
    /\ canvasW = MAX_WIDTH
    /\ maskCanvas /= NoMask
    /\ status.msg = "Color applied."

\* C5 as stated: after a failure the image, the mask, the apply flag and the
\* displayed pixels are what they were when the request was issued.
C5_FailureRestoresStateAtIssue ==
    [][\A k \in 1..Len(requests) :
          FailStep(k) => [image |-> originalImage', mask |-> maskCanvas',
                          apply |-> ~btnApplyDisabled', data |-> canvasData']
                         = requests[k].snap]_vars

\* C5, amended: the step in which a mask request fails changes none of the
\* image, the mask, the current file, the buttons and the canvas.
C5_FailureChangesNothing ==
    [][\A k \in 1..Len(requests) :
          FailStep(k) => UNCHANGED << originalImage, maskCanvas, maskCtx,
                                      currentFile, btnMaskDisabled,
                                      btnApplyDisabled, canvasData, canvasW,
                                      canvasH >>]_vars

\* a request has just failed while a mask was held and shown
C5_Witness ==
    /\ \E k \in 1..Len(requests) : requests[k].pc = "failed"
    /\ status.type = "error"
    /\ originalImage /= NoFile
    /\ maskCanvas /= NoMask
    /\ ~btnApplyDisabled

\* C6: at most one mask request is in flight at any time.
C6_AtMostOneInFlight == Cardinality(InFlight) <= 1

\* C7: after every recolouring the canvas holds what one applyColor with the
\* current colour leaves on the freshly loaded image, and applyColor changes
\* neither the stored image nor the mask.
C7_RecolorFromOriginal ==
    [][/\ PaintStep =>
            canvasData' = applyColorData(originalImage, maskCtx',
                              drawImage(uploads[originalImage].content,
                                        [i \in Pixels |-> Transparent]),
                              colorPicker)
       /\ ApplyCall => UNCHANGED << originalImage, maskCanvas, maskCtx >>]_vars

\* C8: a failing mask request ends with an error-type status and the
\* overlay hidden; a succeeding one ends with the overlay hidden; a
\* suspended handler only ever moves on, succeeds or fails through its catch.
C8_ErrorsCaughtAndShown ==
    [][\A k \in 1..Len(requests) :
          /\ FailStep(k) => (status'.type = "error" /\ loadingHidden')
          /\ DoneStep(k) => loadingHidden'
          /\ Pending(requests[k]) =>
                requests'[k].pc \in {"fetch", "json", "loadMask", "done", "failed"}]_vars

\* the mask image could not be decoded, and the error is on display
C8_Witness ==
    /\ \E k \in 1..Len(requests) : requests[k].pc = "failed"
    /\ status = setStatus("Error generating mask: undefined", "error")
    /\ loadingHidden

\* C9: no request is in flight that was sent while no image was loaded.
C9_NoRequestWithoutImage ==
    \A k \in InFlight : requests[k].snap.image /= NoFile

\* C10: a pixel whose mask alpha is 0 comes out of the engine unchanged.
C10_UnmaskedPixelUnchanged ==
    (engOut /= << >> /\ engIn.maskAlpha = 0) => engOut[1] = engIn.px

\* the engine has run on a coloured, opaque pixel under mask alpha 0
C10_Witness ==
    /\ engOut /= << >>
    /\ engIn.maskAlpha = 0
    /\ engIn.px = [r |-> 204, g |-> 100, b |-> 30, a |-> 255]
    /\ engIn.hex = <<15, 15, 0, 0, 0, 0>>

\* C11: a pixel whose mask alpha is 255 comes out as hslToRgb(hT, sT, l),
\* with hT and sT the target's hue and saturation and l = (max + min) / 2 of
\* the pixel's own channels, its alpha channel as it was; the gray
\* (100,100,100) painted #ff0000 comes out (200,0,0).
C11_FullMaskTakesTargetHueSat ==
    (engOut /= << >> /\ engIn.maskAlpha = 255) =>
        LET px   == engIn.px
            rgbT == hexToRgb(engIn.hex)
            T    == rgbToHsl(rgbT[1], rgbT[2], rgbT[3])
            l    == Max2(px.r, Max2(px.g, px.b)) + Min2(px.r, Min2(px.g, px.b))
            new  == hslToRgb(T.hn, T.hd, T.sn, T.sd, l)
        IN  /\ engOut[1] = [r |-> new[1], g |-> new[2], b |-> new[3], a |-> px.a]
            /\ (px.r = 100 /\ px.g = 100 /\ px.b = 100
                    /\ engIn.hex = <<15, 15, 0, 0, 0, 0>>)
                 => (engOut[1].r = 200 /\ engOut[1].g = 0 /\ engOut[1].b = 0)

\* the gray pixel (100,100,100), half transparent, painted #ff0000 at mask
\* alpha 255
C11_Witness ==
    /\ engOut /= << >>
    /\ engIn.maskAlpha = 255
    /\ engIn.px = [r |-> 100, g |-> 100, b |-> 100, a |-> 128]
    /\ engIn.hex = <<15, 15, 0, 0, 0, 0>>
    /\ engOut[1] = [r |-> 200, g |-> 0, b |-> 0, a |-> 128]

\* the largest difference between the channels of two RGB triples
ChannelError(x, y) ==
    LET Abs(n) == IF n < 0 THEN -n ELSE n
    IN  Max2(Abs(x[1] - y[1]), Max2(Abs(x[2] - y[2]), Abs(x[3] - y[3])))

\* C12: converting an RGB triple to HSL and back changes no channel by more
\* than 1.
C12_RoundTripWithinOne ==
    engRt /= << >> =>
        ChannelError(engRt, << engIn.px.r, engIn.px.g, engIn.px.b >>) <= 1

\* a saturated colour, lighter than one half, has made the round trip
C12_Witness ==
    /\ engRt = << 204, 100, 255 >>
    /\ engIn.px.r = 204 /\ engIn.px.g = 100 /\ engIn.px.b = 255

\* the step in which handleMasking sends a request
SendStep == Len(requests') = Len(requests) + 1

\* C13: a request is sent with exactly the fields image, scene and mode:
\* image is the file last picked, as picked (an upload, whatever the canvas
\* was resized to), scene is "interior" if the toggle was checked and
\* "exterior" otherwise, mode is "auto"; one click sends one request, and
\* no other step sends or re-sends one.
C13_RequestCarriesImageSceneMode ==
    [][/\ Len(requests') \in {Len(requests), Len(requests) + 1}
       /\ \A k \in 1..Len(requests) :
             requests'[k].pc = "fetch" => requests'[k] = requests[k]
       /\ SendStep =>
             LET r == requests'[Len(requests')]
             IN  /\ r.pc = "fetch"
                 /\ DOMAIN r.form = {"image", "scene", "mode"}
                 /\ r.form.image = currentFile
                 /\ r.form.image \in 1..Len(uploads)
                 /\ r.form.scene = (IF r.toggle THEN "interior" ELSE "exterior")
                 /\ r.form.mode = "auto"]_vars

\* an interior request for an image wider than MAX_WIDTH: the canvas was
\* resized, the file sent is the upload
C13_Witness ==
    \E k \in 1..Len(requests) :
        /\ requests[k].pc = "fetch"
        /\ requests[k].toggle
        /\ requests[k].form.scene = "interior"
        /\ requests[k].form.image = originalImage
        /\ ImgWidth(uploads[originalImage].content) > MAX_WIDTH
        /\ canvasW = MAX_WIDTH

\* the image u painted: each of its pixels recoloured with hex through the
\* mask
Painted(u, mask, hex) ==
    [i \in Pixels |-> RecolorPixel(ImgPixel(uploads[u].content, i),
                                   MaskAlpha(mask.img, i), hex)]

\* C14: the step in which a mask request succeeds leaves its mask held, the
\* apply button enabled and, on the canvas, the loaded image painted with
\* the picker's colour through that mask; it is one step, so the request is
\* finished when it ends.
C14_SuccessMasksEnablesRecolors ==
    [][\A k \in 1..Len(requests) :
          DoneStep(k) =>
              /\ maskCanvas' /= NoMask
              /\ maskCanvas'.img = requests[k].mask
              /\ maskCtx' = maskCanvas'
              /\ ~btnApplyDisabled'
              /\ originalImage' = originalImage
              /\ colorPicker' = colorPicker
              /\ originalImage /= NoFile =>
                    canvasData' = Painted(originalImage, maskCanvas', colorPicker)]_vars

\* C14 without its last clause: the canvas holds what applyColor leaves on
\* the canvas as it stood
C14_SuccessRunsApplyColor ==
    [][\A k \in 1..Len(requests) :
          DoneStep(k) =>
              /\ maskCanvas' /= NoMask
              /\ maskCanvas'.img = requests[k].mask
              /\ maskCtx' = maskCanvas'
              /\ ~btnApplyDisabled'
              /\ originalImage' = originalImage
              /\ colorPicker' = colorPicker
              /\ originalImage /= NoFile =>
                    canvasData' = applyColorData(originalImage, maskCanvas',
                                                 canvasData, colorPicker)]_vars

\* C15: while the apply button is enabled, an image is loaded and a mask is
\* held (the page starts with both buttons disabled and clicks reach only
\* enabled buttons).
C15_ApplyEnabledOnlyWhenMasked ==
    ~btnApplyDisabled => (originalImage /= NoFile /\ maskCanvas /= NoMask)

\* the apply button is enabled on the second image loaded, by the response
\* to a request made for the first, which arrived after the second load
C15_Witness ==
    /\ ~btnApplyDisabled
    /\ Loads(uploads) = 2
    /\ originalImage /= NoFile
    /\ maskCanvas /= NoMask
    /\ maskCanvas.loads = 1

\* C16: the file a request sends is the file the image on display was
\* decoded from.
C16_SentFileIsLoadedImage ==
    [][SendStep => requests'[Len(requests')].form.image = originalImage]_vars

\* C17: the loading overlay is shown exactly while some mask request is in
\* flight.
C17_LoadingShownIffInFlight == (~loadingHidden) <=> (InFlight /= {})

=============================================================================
